---- MODULE Spec2Model ----
(***************************************************************************)
(* Trading limits (risk gate), price alerts and order lifecycle of the     *)
(* Polymarket API gateway: app/services/advanced.py (TradingLimitsService, *)
(* PriceAlertService), app/services/order_service.py (OrderService),       *)
(* app/services/monitor.py (TradeMonitor), app/database.py,                *)
(* app/clients/polymarket.py and app/routes/{orders,webhook,advanced}.py.  *)
(*                                                                         *)
(* Amounts are whole dollars.  A UTC calendar day is a natural number;     *)
(* a timestamp is the day it falls in.  Optional values (Python None) are  *)
(* sequences of length 0 or 1: <<>> is None, <<v>> is the value v.         *)
(* Trades carry the time they happened at, so no ledger record is dated    *)
(* after the current day.                                                  *)
(***************************************************************************)
EXTENDS Integers, Sequences, FiniteSets, Bags, TLC

\* ---------------------------------------------------------------- bounds
MaxDay == 1
MaxLedger == 3
MaxCountCap == 2
MaxOrders == 2
MaxWebhookId == 1
NumFlows == 3
MaxAlerts == 2
MaxClock == 2
MaxRunCalls == 2

\* TradeLimit.max_trade_usd and TradeLimit.max_daily_usd
MaxTradeUsd == 100
MaxDailyUsd == 500

Days == 0..MaxDay
\* the amounts asked for, and the amounts of the trades recorded
Amounts == {60, 80, 150}
TradeAmounts == {100, 400}
\* the amounts the admission flows ask for: the per-trade ceiling, and more
FlowAmounts == {100, 150}
None == <<>>
Some(v) == <<v>>

VARIABLES
  today,        \* datetime.utcnow() as a UTC day
  limits,       \* TradingLimitsService.limits (TradeLimit)
  today_stats,  \* TradingLimitsService._today_stats: None or a DailyStats
  ledger,       \* the trades collection: a bag of [day, amount] records
  mongo_db,     \* database._mongo_db is not None
  last,         \* the latest limits-engine call and what it returned
  orders,       \* the orders collection: a set of order documents
  next_uuid,    \* the number of order ids uuid.uuid4() has handed out
  exchange,     \* the orders handed to polymarket_client.place_order
  reply,        \* the latest order operation and what it returned
  admitted,     \* the amounts can_trade has answered allowed=True for
  webhook_secret, \* settings.OPENCLAW_WEBHOOK_SECRET is set
  in_flight,    \* the admission flows between can_trade and record_trade:
                \* a bag of the amounts can_trade let through
  active_alerts, \* PriceAlertService.active_alerts: the token buckets in the
                \* order their keys were inserted, each a list of alerts
  now,          \* int(time.time()), in seconds
  checks,       \* the check_alerts calls suspended on a webhook POST
  alert_reply,  \* the latest alert operation and what it returned
  fired,        \* how often check_alerts has returned each alert_id (2: more
                \* than once)
  runs          \* the _run_sync calls made so far, and the functions they
                \* handed to the executor

limitVars == <<today, limits, today_stats, ledger, mongo_db, last>>
orderVars == <<orders, next_uuid, exchange, reply, admitted, webhook_secret>>
flowVars == <<in_flight>>
alertVars == <<active_alerts, now, checks, alert_reply, fired>>
runVars == <<runs>>
vars == <<limitVars, orderVars, flowVars, alertVars, runVars>>

\* ------------------------------------------------------ TradeLimit config
TradeLimit(mt, md, mc) ==
  [max_trade_usd |-> mt, max_daily_usd |-> md, max_daily_trades |-> mc]

LimitConfigs ==
  { TradeLimit(MaxTradeUsd, MaxDailyUsd, mc) :
      mc \in {None} \cup { Some(n) : n \in 0..MaxCountCap } }

\* Python truthiness of an Optional[int]: None and 0 are both falsy.
Truthy(opt) == opt # None /\ opt[1] # 0

\* ------------------------------------------------------------ the ledger
TradeRecords == [day : Days, amount : Amounts \cup TradeAmounts]

\* the pipeline without its $match stage: every record goes to the $group
MatchAll(l, start_of_day) == BagToSet(l)

\* {"$match": {"timestamp": {"$gte": start_of_day}}}
Match(l, start_of_day) == { t \in BagToSet(l) : t.day >= start_of_day }

\* {"$sum": 1} over the documents of S, each as often as the bag holds it
RECURSIVE CountOver(_, _)
CountOver(S, b) ==
  IF S = {} THEN 0
  ELSE LET t == CHOOSE x \in S : TRUE
       IN  CopiesIn(t, b) + CountOver(S \ {t}, b)

\* {"$sum": "$amount"}
RECURSIVE VolumeOver(_, _)
VolumeOver(S, b) ==
  IF S = {} THEN 0
  ELSE LET t == CHOOSE x \in S : TRUE
       IN  CopiesIn(t, b) * t.amount + VolumeOver(S \ {t}, b)

\* the $group stage: one document when the $match stage lets records through,
\* an empty result list otherwise
Aggregate(l, start_of_day) ==
  LET m == Match(l, start_of_day)
  IN  IF m = {} THEN <<>>
      ELSE << [total_trades |-> CountOver(m, l),
               total_volume |-> VolumeOver(m, l)] >>

\* ------------------------------------------------------------ DailyStats
DailyStats(d, n, v) == [date |-> d, total_trades |-> n, total_volume_usd |-> v]

\* the cache check without the comparison of dates
CacheValidAnyDate(cache, d, reload) == cache # None /\ ~reload

\* if self._today_stats and not reload: if self._today_stats.date == today
CacheValid(cache, d, reload) ==
  cache # None /\ ~reload /\ cache[1].date = d

\* the fetch answering a failed query with a used-up day instead of zeros
FetchStatsFailClosed(l, d, connected, raises) ==
  IF ~connected \/ raises THEN DailyStats(d, 0, MaxDailyUsd)
  ELSE LET result == Aggregate(l, d)
       IN  IF result # <<>>
           THEN DailyStats(d, result[1].total_trades, result[1].total_volume)
           ELSE DailyStats(d, 0, 0)

\* the fetch from the trades collection; `raises` is the aggregate call
\* raising, a collection of None (store not connected) raises as well
FetchStats(l, d, connected, raises) ==
  IF ~connected \/ raises THEN DailyStats(d, 0, 0)
  ELSE LET result == Aggregate(l, d)
       IN  IF result # <<>>
           THEN DailyStats(d, result[1].total_trades, result[1].total_volume)
           ELSE DailyStats(d, 0, 0)

get_daily_stats(cache, l, d, reload, connected, raises) ==
  IF CacheValid(cache, d, reload) THEN cache[1]
  ELSE FetchStats(l, d, connected, raises)

\* --------------------------------------------------------------- can_trade
Reason(kind, value) == [kind |-> kind, value |-> value]

\* can_trade with the daily-volume check moved in front of the per-trade check
can_trade_volume_first(amount_usd, stats, lim) ==
  IF stats.total_volume_usd + amount_usd > lim.max_daily_usd
  THEN [allowed |-> FALSE,
        reason |-> Reason("daily_limit_exceeded",
                          lim.max_daily_usd - stats.total_volume_usd)]
  ELSE IF amount_usd > lim.max_trade_usd
  THEN [allowed |-> FALSE, reason |-> Reason("exceeds_trade_limit", lim.max_trade_usd)]
  ELSE IF Truthy(lim.max_daily_trades)
          /\ stats.total_trades >= lim.max_daily_trades[1]
  THEN [allowed |-> FALSE,
        reason |-> Reason("daily_trade_limit_reached", lim.max_daily_trades[1])]
  ELSE [allowed |-> TRUE, reason |-> Reason("Trade allowed", 0)]

\* can_trade with the per-trade comparison inverted (< for >)
can_trade_inverted(amount_usd, stats, lim) ==
  IF amount_usd < lim.max_trade_usd
  THEN [allowed |-> FALSE, reason |-> Reason("exceeds_trade_limit", lim.max_trade_usd)]
  ELSE IF stats.total_volume_usd + amount_usd > lim.max_daily_usd
  THEN [allowed |-> FALSE,
        reason |-> Reason("daily_limit_exceeded",
                          lim.max_daily_usd - stats.total_volume_usd)]
  ELSE IF Truthy(lim.max_daily_trades)
          /\ stats.total_trades >= lim.max_daily_trades[1]
  THEN [allowed |-> FALSE,
        reason |-> Reason("daily_trade_limit_reached", lim.max_daily_trades[1])]
  ELSE [allowed |-> TRUE, reason |-> Reason("Trade allowed", 0)]

\* can_trade with the daily check on the amount alone, the usage left out
can_trade_ignores_usage(amount_usd, stats, lim) ==
  IF amount_usd > lim.max_trade_usd
  THEN [allowed |-> FALSE, reason |-> Reason("exceeds_trade_limit", lim.max_trade_usd)]
  ELSE IF amount_usd > lim.max_daily_usd
  THEN [allowed |-> FALSE,
        reason |-> Reason("daily_limit_exceeded",
                          lim.max_daily_usd - stats.total_volume_usd)]
  ELSE IF Truthy(lim.max_daily_trades)
          /\ stats.total_trades >= lim.max_daily_trades[1]
  THEN [allowed |-> FALSE,
        reason |-> Reason("daily_trade_limit_reached", lim.max_daily_trades[1])]
  ELSE [allowed |-> TRUE, reason |-> Reason("Trade allowed", 0)]

\* can_trade with the count check passing a day that is at its count limit
\* (> for >=)
can_trade_count_strict(amount_usd, stats, lim) ==
  IF amount_usd > lim.max_trade_usd
  THEN [allowed |-> FALSE, reason |-> Reason("exceeds_trade_limit", lim.max_trade_usd)]
  ELSE IF stats.total_volume_usd + amount_usd > lim.max_daily_usd
  THEN [allowed |-> FALSE,
        reason |-> Reason("daily_limit_exceeded",
                          lim.max_daily_usd - stats.total_volume_usd)]
  ELSE IF Truthy(lim.max_daily_trades)
          /\ stats.total_trades > lim.max_daily_trades[1]
  THEN [allowed |-> FALSE,
        reason |-> Reason("daily_trade_limit_reached", lim.max_daily_trades[1])]
  ELSE [allowed |-> TRUE, reason |-> Reason("Trade allowed", 0)]

can_trade(amount_usd, stats, lim) ==
  IF amount_usd > lim.max_trade_usd
  THEN [allowed |-> FALSE, reason |-> Reason("exceeds_trade_limit", lim.max_trade_usd)]
  ELSE IF stats.total_volume_usd + amount_usd > lim.max_daily_usd
  THEN [allowed |-> FALSE,
        reason |-> Reason("daily_limit_exceeded",
                          lim.max_daily_usd - stats.total_volume_usd)]
  ELSE IF Truthy(lim.max_daily_trades)
          /\ stats.total_trades >= lim.max_daily_trades[1]
  THEN [allowed |-> FALSE,
        reason |-> Reason("daily_trade_limit_reached", lim.max_daily_trades[1])]
  ELSE [allowed |-> TRUE, reason |-> Reason("Trade allowed", 0)]

\* ------------------------------------------------------- the call records
\* op: the operation; at: the day it ran on; cached: the date of the cached
\* snapshot it found; queried: it ran the ledger query; ok: no ledger call
\* of it failed; after: the record_trade call right before it, if any
NoCall ==
  [op |-> "none", amount |-> 0, day |-> 0, reload |-> FALSE, at |-> 0,
   cached |-> None, queried |-> FALSE, ok |-> TRUE,
   allowed |-> FALSE, reason |-> Reason("none", 0), after |-> None]

\* the aggregate of the ledger from day d on, as a DailyStats
LedgerStats(l, d) == FetchStats(l, d, TRUE, FALSE)

CachedDate(cache) == IF cache = None THEN None ELSE Some(cache[1].date)

\* what a read remembers of a record_trade call that ran right before it
After(call) ==
  IF call.op = "record_trade"
  THEN Some([day |-> call.day, amount |-> call.amount, ok |-> call.ok,
             cached |-> call.cached,
             trades |-> call.after[1].trades, volume |-> call.after[1].volume])
  ELSE None

\* ------------------------------------------------------- order lifecycle
\* OrderStatus
OrderStatus ==
  {"PENDING", "OPEN", "FILLED", "PARTIALLY_FILLED", "CANCELLED", "EXPIRED", "FAILED"}
Terminal == {"FILLED", "CANCELLED", "EXPIRED", "FAILED"}

OrderIds == 1..MaxOrders
WebhookIds == 1..MaxWebhookId
\* the amounts of order requests: 0 fails the validation of OrderRequest
OrderAmounts == {0, 60, 150}
\* the prices of order requests, in hundredths: none, 0, 0.5, 1 and 1.01
Prices == {None, Some(0), Some(50), Some(100), Some(101)}
\* OrderType: one that needs a price and one that does not
OrderTypes == {"GTC", "FOK"}
\* the price and type of the requests of the lifecycle specifications
LimitPrices == {Some(50)}
LimitTypes == {"GTC"}

\* the Field constraints of OrderRequest: amount gt=0, price ge=0 and le=1
OrderRequestValid(amount, price) ==
  /\ amount > 0
  /\ price = None \/ (price[1] >= 0 /\ price[1] <= 100)

\* float(data["price"]) if data.get("price") else None: a price of 0 is
\* falsy and becomes None
WebhookPrice(price) == IF price # None /\ price[1] # 0 THEN price ELSE None

\* what the CLOB call made by place_order comes back with: it raises, it
\* returns None, or it returns a dict that holds ("orderID" or "id") or not,
\* and "hash" or not
ClobOutcomes ==
  { [kind |-> "raise", id |-> FALSE, hash |-> FALSE],
    [kind |-> "none", id |-> FALSE, hash |-> FALSE] }
  \cup { [kind |-> "dict", id |-> i, hash |-> h] : i \in BOOLEAN, h \in BOOLEAN }

\* str(e) of the exception a raising CLOB call ends with
ClobMessage == "timeout"

\* PolymarketClient.place_order: the result dict; has_response says whether
\* the dict has the key "response", error is its key "error" ("none" when
\* the dict has no such key)
place_order(raw) ==
  IF raw.kind = "raise"
  THEN [success |-> FALSE, has_response |-> FALSE, response |-> raw,
        error |-> ClobMessage]
  ELSE IF raw.kind = "dict" /\ raw.id
  THEN [success |-> TRUE, has_response |-> TRUE, response |-> raw,
        error |-> "none"]
  ELSE [success |-> FALSE, has_response |-> TRUE, response |-> raw,
        error |-> "Order failed"]

\* result.get("response", {}).get("hash") raises AttributeError when the key
\* "response" is there with the value None
HashLookupRaises(result) == result.has_response /\ result.response.kind = "none"

\* the order document create_order builds: its keys are order_id,
\* transaction_hash, status and response (result.get("response"): None, or
\* the dict the CLOB call returned), and the request's fields
OrderDoc(order_id, result) ==
  [order_id |-> order_id,
   status |-> IF result.success THEN "OPEN" ELSE "FAILED",
   transaction_hash |-> result.has_response /\ result.response.hash,
   response |-> IF result.has_response THEN Some(result.response.kind) ELSE None]

\* database.save_order: nothing is stored when the store is not connected
save_order(coll, doc, connected) == IF connected THEN coll \cup {doc} ELSE coll

\* database.update_order: update_one({"order_id": order_id}, {"$set": {status}})
update_order(coll, order_id, status, connected) ==
  IF connected
  THEN { IF o.order_id = order_id THEN [o EXCEPT !.status = status] ELSE o : o \in coll }
  ELSE coll

\* database.get_order: the documents find_one can return ({} when there is
\* none or the store is not connected)
get_order(coll, order_id, connected) ==
  IF connected THEN { o \in coll : o.order_id = order_id } ELSE {}

\* op: the operation; order_id: the id it allocated or was called with;
\* success / has_order_id / error: the fields of the result it returned;
\* result_error: the key "error" of the nested place_order result;
\* external: it called the trading client; clob: what the CLOB call of
\* create_order came back with; raised: the operation ended with an
\* exception instead of a result
NoReply ==
  [op |-> "none", order_id |-> 0, success |-> FALSE, has_order_id |-> FALSE,
   error |-> "none", result_error |-> "none", external |-> FALSE,
   status |-> "none", clob |-> "none", raised |-> FALSE]

\* ------------------------------------------------------------ price alerts
Tokens == {"t1", "t2"}
AlertIds == 1..MaxClock
CheckIds == {"c1", "c2"}
Conditions == {"above", "below", "crosses_above"}
\* thresholds and observed prices, in hundredths
Thresholds == {70}
AlertPrices == {65, 70, 80}

\* the alert dict create_alert builds
Alert(alert_id, token_id, condition, threshold, webhook_url) ==
  [alert_id |-> alert_id, token_id |-> token_id, condition |-> condition,
   threshold |-> threshold, webhook_url |-> webhook_url, active |-> TRUE,
   triggered |-> FALSE, trigger_price |-> None]

\* the position of the bucket of token_id in the table, 0 when the table
\* has no such key
RECURSIVE BucketIndex(_, _, _)
BucketIndex(table, token_id, i) ==
  IF i > Len(table) THEN 0
  ELSE IF table[i].token_id = token_id THEN i
  ELSE BucketIndex(table, token_id, i + 1)

\* self.active_alerts[token_id], the empty list standing for a missing key
Bucket(table, token_id) ==
  LET b == BucketIndex(table, token_id, 1)
  IN  IF b = 0 THEN <<>> ELSE table[b].alerts

\* the comparison with > in place of >= and < in place of <=
ShouldTriggerStrict(alert, current_price) ==
  \/ alert.condition = "above" /\ current_price > alert.threshold
  \/ alert.condition = "below" /\ current_price < alert.threshold

\* should_trigger of check_alerts
ShouldTrigger(alert, current_price) ==
  \/ alert.condition = "above" /\ current_price >= alert.threshold
  \/ alert.condition = "below" /\ current_price <= alert.threshold

\* the loop of check_alerts over the list `alerts` from position i on, up to
\* its end (pc "done") or up to the webhook POST of an alert that fired (pc
\* "post"); out is the list `triggered` built so far
RECURSIVE Evaluate(_, _, _, _)
Evaluate(alerts, current_price, i, out) ==
  IF i > Len(alerts)
  THEN [alerts |-> alerts, out |-> out, idx |-> i, pc |-> "done"]
  ELSE LET alert == alerts[i]
           hit   == [alert EXCEPT !.triggered = TRUE,
                                  !.trigger_price = Some(current_price)]
       IN  IF alert.triggered \/ ~alert.active
           THEN Evaluate(alerts, current_price, i + 1, out)
           ELSE IF ~ShouldTrigger(alert, current_price)
           THEN Evaluate(alerts, current_price, i + 1, out)
           ELSE IF alert.webhook_url
           THEN [alerts |-> [alerts EXCEPT ![i] = hit], out |-> Append(out, hit),
                 idx |-> i + 1, pc |-> "post"]
           ELSE Evaluate([alerts EXCEPT ![i] = hit], current_price, i + 1,
                         Append(out, hit))

\* check_alerts run to its end with nothing else running at its POSTs
RECURSIVE Run(_, _, _, _)
Run(alerts, current_price, i, out) ==
  LET r == Evaluate(alerts, current_price, i, out)
  IN  IF r.pc = "done" THEN r ELSE Run(r.alerts, current_price, r.idx, r.out)

\* the table with the list of token_id replaced (the key is there)
WithBucket(table, token_id, alerts) ==
  [b \in 1..Len(table) |->
     IF table[b].token_id = token_id THEN [table[b] EXCEPT !.alerts = alerts]
     ELSE table[b]]

\* the number of alerts in the table
RECURSIVE TotalAlerts(_, _)
TotalAlerts(table, b) ==
  IF b > Len(table) THEN 0 ELSE Len(table[b].alerts) + TotalAlerts(table, b + 1)

\* the count of returned alert ids after one more result
RECURSIVE Count(_, _, _)
Count(counts, out, k) ==
  IF k > Len(out) THEN counts
  ELSE LET id == out[k].alert_id
       IN  Count([counts EXCEPT ![id] = IF counts[id] >= 1 THEN 2 ELSE 1], out, k + 1)

\* a check_alerts call that is not under way; due holds, for a call under
\* way, the ids of the alerts its price fires in the list it was called on
IdleCheck ==
  [pc |-> "idle", token_id |-> "t1", price |-> 0, idx |-> 0, out |-> <<>>,
   due |-> {}]

NoAlertReply ==
  [op |-> "none", token_id |-> "t1", price |-> 0, alert_id |-> 0,
   found |-> FALSE, result |-> <<>>]

\* PriceAlertService.__init__, and no call under way
AlertsInit ==
  /\ active_alerts = <<>>
  /\ now = 1
  /\ checks = [c \in CheckIds |-> IdleCheck]
  /\ alert_reply = NoAlertReply
  /\ fired = [id \in AlertIds |-> 0]

\* ---------------------------------------------------------------- _run_sync
\* the _run_sync calls, in the order they are made
RunIds == 1..MaxRunCalls

\* one _run_sync call.  pc: the caller's position ("idle" before the call,
\* "submitted" after run_in_executor, "ended" after .result() and
\* loop.close()); func: the function in the executor thread ("idle",
\* "running", "returned", "raised"); raw: what func ended with; future: the
\* state of the asyncio future run_in_executor returned; callback: what
\* became of the hand-over of func's result to the loop ("scheduled" on the
\* loop, "refused" by a closed loop); ended: how _run_sync ended
NoRun ==
  [pc |-> "idle", func |-> "idle", raw |-> None, future |-> "PENDING",
   callback |-> "none", ended |-> "none"]

RunsInit == runs = [i \in RunIds |-> NoRun]

\* ------------------------------------------------------------------- Init
\* no order operation has run: the order store is empty
OrdersInit ==
  /\ orders = {}
  /\ next_uuid = 0
  /\ exchange = {}
  /\ reply = NoReply
  /\ admitted = {}

\* no admission flow is under way
FlowsInit == in_flight = EmptyBag

InitLimits ==
  /\ today = 0
  /\ limits \in LimitConfigs
  /\ today_stats = None
  /\ ledger = EmptyBag
  /\ mongo_db \in BOOLEAN
  /\ last = NoCall
  /\ OrdersInit
  /\ webhook_secret = FALSE
  /\ FlowsInit
  /\ AlertsInit
  /\ RunsInit

\* ---------------------------------------------------------------- actions
\* TradingLimitsService.get_daily_stats(reload)
GetDailyStats(reload, raises) ==
  LET hit   == CacheValid(today_stats, today, reload)
      stats == get_daily_stats(today_stats, ledger, today, reload, mongo_db, raises)
  IN  /\ today_stats' = Some(stats)
      /\ last' = [NoCall EXCEPT !.op = "get_daily_stats", !.reload = reload,
                    !.at = today, !.cached = CachedDate(today_stats),
                    !.queried = ~hit, !.ok = hit \/ (mongo_db /\ ~raises),
                    !.after = After(last)]
      /\ UNCHANGED <<today, limits, ledger, mongo_db>>

\* TradingLimitsService.can_trade(amount_usd)
CanTrade(amount_usd, raises) ==
  LET hit   == CacheValid(today_stats, today, FALSE)
      stats == get_daily_stats(today_stats, ledger, today, FALSE, mongo_db, raises)
      res   == can_trade(amount_usd, stats, limits)
  IN  /\ today_stats' = Some(stats)
      /\ last' = [NoCall EXCEPT !.op = "can_trade", !.amount = amount_usd,
                    !.at = today, !.cached = CachedDate(today_stats),
                    !.queried = ~hit, !.ok = hit \/ (mongo_db /\ ~raises),
                    !.allowed = res.allowed, !.reason = res.reason]
      /\ UNCHANGED <<today, limits, ledger, mongo_db>>

\* record_trade without the invalidation of the cache
RecordTradeKeepsCache(t, raises) ==
  LET inserted == mongo_db /\ ~raises
      before   == LedgerStats(ledger, today)
  IN  /\ ledger' = IF inserted THEN ledger (+) SetToBag({t}) ELSE ledger
      /\ today_stats' = today_stats
      /\ last' = [NoCall EXCEPT !.op = "record_trade", !.amount = t.amount,
                    !.day = t.day, !.at = today, !.ok = inserted,
                    !.cached = CachedDate(today_stats),
                    !.after = Some([trades |-> before.total_trades,
                                    volume |-> before.total_volume_usd])]
      /\ UNCHANGED <<today, limits, mongo_db>>

\* TradingLimitsService.record_trade(trade_data): insert_one, then drop the
\* cache; an insert that raises (or a collection of None) is logged and
\* swallowed and leaves the cache as it is
RecordTrade(t, raises) ==
  LET inserted == mongo_db /\ ~raises
      before   == LedgerStats(ledger, today)
  IN  /\ ledger' = IF inserted THEN ledger (+) SetToBag({t}) ELSE ledger
      /\ today_stats' = IF inserted THEN None ELSE today_stats
      /\ last' = [NoCall EXCEPT !.op = "record_trade", !.amount = t.amount,
                    !.day = t.day, !.at = today, !.ok = inserted,
                    !.cached = CachedDate(today_stats),
                    !.after = Some([trades |-> before.total_trades,
                                    volume |-> before.total_volume_usd])]
      /\ UNCHANGED <<today, limits, mongo_db>>

\* UTC midnight passes
Midnight ==
  /\ today < MaxDay
  /\ today' = today + 1
  /\ UNCHANGED <<limits, today_stats, ledger, mongo_db, last>>

NextLimits ==
  \/ /\ \E reload \in BOOLEAN, raises \in BOOLEAN : GetDailyStats(reload, raises)
     /\ UNCHANGED <<orderVars, flowVars, alertVars, runVars>>
  \/ /\ \E a \in Amounts, raises \in BOOLEAN : CanTrade(a, raises)
     /\ UNCHANGED <<orderVars, flowVars, alertVars, runVars>>
  \/ /\ BagCardinality(ledger) < MaxLedger
     /\ \E d \in 0..today, a \in TradeAmounts, raises \in BOOLEAN :
          RecordTrade([day |-> d, amount |-> a], raises)
     /\ UNCHANGED <<orderVars, flowVars, alertVars, runVars>>
  \/ Midnight /\ UNCHANGED <<orderVars, flowVars, alertVars, runVars>>

SpecLimits == InitLimits /\ [][NextLimits]_vars

\* ---------------------------------------------------------- order actions
\* OrderService.create_order(request); webhook_id is the id of the webhook
\* delivery the request came with (None for POST /orders), raw the outcome
\* of the CLOB call, store_raises an insert_one that raises; the request's
\* amount, price and order_type go to polymarket_client.place_order
create_order(amount, price, order_type, webhook_id, raw, store_raises) ==
  LET order_id == next_uuid + 1
      result   == place_order(raw)
      doc      == OrderDoc(order_id, result)
      raised   == HashLookupRaises(result) \/ (mongo_db /\ store_raises)
  IN  /\ next_uuid < MaxOrders
      /\ next_uuid' = order_id
      /\ exchange' = exchange \cup
            {[order_id |-> order_id, amount |-> amount, price |-> price,
              order_type |-> order_type, webhook_id |-> webhook_id]}
      /\ orders' = IF raised THEN orders ELSE save_order(orders, doc, mongo_db)
      /\ reply' = IF raised
                   THEN [NoReply EXCEPT !.op = "create_order", !.order_id = order_id,
                           !.error = "exception", !.external = TRUE,
                           !.clob = raw.kind]
                   ELSE [NoReply EXCEPT !.op = "create_order", !.order_id = order_id,
                           !.success = result.success, !.has_order_id = TRUE,
                           !.result_error = result.error,
                           !.external = TRUE, !.status = doc.status,
                           !.clob = raw.kind]
      /\ UNCHANGED <<admitted, webhook_secret>>

\* POST /orders: the body is validated as an OrderRequest, then create_order
PostOrder(amount, price, order_type, raw, store_raises) ==
  IF OrderRequestValid(amount, price)
  THEN create_order(amount, price, order_type, None, raw, store_raises)
  ELSE /\ reply' = [NoReply EXCEPT !.op = "post_order", !.error = "validation"]
       /\ UNCHANGED <<orders, next_uuid, exchange, admitted, webhook_secret>>

\* POST /webhook/claw: signature check (only with a signature header and a
\* configured secret), OrderRequest built from the payload and validated,
\* then create_order
ClawWebhook(webhook_id, amount, price, order_type, signature, raw, store_raises) ==
  IF signature # "none" /\ webhook_secret /\ signature # "good"
  THEN /\ reply' = [NoReply EXCEPT !.op = "claw_webhook", !.error = "invalid signature"]
       /\ UNCHANGED <<orders, next_uuid, exchange, admitted, webhook_secret>>
  ELSE IF OrderRequestValid(amount, WebhookPrice(price))
  THEN create_order(amount, WebhookPrice(price), order_type, Some(webhook_id),
                    raw, store_raises)
  ELSE /\ reply' = [NoReply EXCEPT !.op = "claw_webhook", !.error = "validation"]
       /\ UNCHANGED <<orders, next_uuid, exchange, admitted, webhook_secret>>

\* cancel_order with the external cancel in front of the lookup of the record
cancel_order_external_first(order_id, external_ok, store_raises) ==
  LET found == get_order(orders, order_id, mongo_db) # {}
  IN  IF mongo_db /\ store_raises = "get"
      THEN /\ reply' = [NoReply EXCEPT !.op = "cancel_order", !.order_id = order_id,
                           !.external = TRUE, !.error = "exception"]
           /\ UNCHANGED <<orders, next_uuid, exchange, admitted, webhook_secret>>
      ELSE IF ~found
      THEN /\ reply' = [NoReply EXCEPT !.op = "cancel_order", !.order_id = order_id,
                           !.external = TRUE, !.error = "Order not found"]
           /\ UNCHANGED <<orders, next_uuid, exchange, admitted, webhook_secret>>
      ELSE IF external_ok /\ store_raises = "update"
      THEN /\ reply' = [NoReply EXCEPT !.op = "cancel_order", !.order_id = order_id,
                           !.external = TRUE, !.error = "exception"]
           /\ UNCHANGED <<orders, next_uuid, exchange, admitted, webhook_secret>>
      ELSE /\ orders' = IF external_ok
                         THEN update_order(orders, order_id, "CANCELLED", mongo_db)
                         ELSE orders
           /\ reply' = [NoReply EXCEPT !.op = "cancel_order", !.order_id = order_id,
                           !.success = external_ok, !.external = TRUE,
                           !.error = IF external_ok THEN "none" ELSE "external"]
           /\ UNCHANGED <<next_uuid, exchange, admitted, webhook_secret>>

\* OrderService.cancel_order(order_id); external_ok is the answer of
\* polymarket_client.cancel_order; store_raises names the store call that
\* raises: "get" (find_one), "update" (update_one) or "no"
cancel_order(order_id, external_ok, store_raises) ==
  LET found == get_order(orders, order_id, mongo_db) # {}
  IN  IF mongo_db /\ store_raises = "get"
      THEN /\ reply' = [NoReply EXCEPT !.op = "cancel_order", !.order_id = order_id,
                           !.error = "exception"]
           /\ UNCHANGED <<orders, next_uuid, exchange, admitted, webhook_secret>>
      ELSE IF ~found
      THEN /\ reply' = [NoReply EXCEPT !.op = "cancel_order", !.order_id = order_id,
                           !.error = "Order not found"]
           /\ UNCHANGED <<orders, next_uuid, exchange, admitted, webhook_secret>>
      ELSE IF external_ok /\ store_raises = "update"
      THEN /\ reply' = [NoReply EXCEPT !.op = "cancel_order", !.order_id = order_id,
                           !.external = TRUE, !.error = "exception"]
           /\ UNCHANGED <<orders, next_uuid, exchange, admitted, webhook_secret>>
      ELSE /\ orders' = IF external_ok
                         THEN update_order(orders, order_id, "CANCELLED", mongo_db)
                         ELSE orders
           /\ reply' = [NoReply EXCEPT !.op = "cancel_order", !.order_id = order_id,
                           !.success = external_ok, !.external = TRUE,
                           !.error = IF external_ok THEN "none" ELSE "external"]
           /\ UNCHANGED <<next_uuid, exchange, admitted, webhook_secret>>

\* the "status" of what polymarket_client.get_order_status can return: ""
\* for the empty dict, a status outside the local vocabulary, and one in it
ExchangeStatuses == {"", "LIVE", "FILLED"}

\* OrderService.get_order_status(order_id): the answer of the trading client
\* is returned as it is; the order store is not touched
get_order_status(order_id, external_status) ==
  /\ reply' = [NoReply EXCEPT !.op = "get_order_status", !.order_id = order_id,
                  !.success = external_status # "", !.external = TRUE,
                  !.status = external_status]
  /\ UNCHANGED <<orders, next_uuid, exchange, admitted, webhook_secret>>

\* OrderService.get_order(order_id): the answer of database.get_order, with
\* no handler around it; store_raises is find_one raising
GetOrder(order_id, store_raises) ==
  /\ reply' = IF mongo_db /\ store_raises
               THEN [NoReply EXCEPT !.op = "get_order", !.order_id = order_id,
                       !.raised = TRUE]
               ELSE [NoReply EXCEPT !.op = "get_order", !.order_id = order_id,
                       !.success = get_order(orders, order_id, mongo_db) # {}]
  /\ UNCHANGED <<orders, next_uuid, exchange, admitted, webhook_secret>>

\* OrderService.cancel_all_orders(): the answer of
\* polymarket_client.cancel_all_orders, which catches what the CLOB call
\* raises; the order store is not touched
cancel_all_orders(external_ok) ==
  /\ reply' = [NoReply EXCEPT !.op = "cancel_all_orders", !.success = external_ok,
                  !.external = TRUE,
                  !.error = IF external_ok THEN "none" ELSE "external"]
  /\ UNCHANGED <<orders, next_uuid, exchange, admitted, webhook_secret>>

\* POST /trading/can-trade
CheckTradeAllowed(amount_usd, raises) ==
  /\ CanTrade(amount_usd, raises)
  /\ admitted' = IF last'.allowed THEN admitted \cup {amount_usd} ELSE admitted
  /\ UNCHANGED <<orders, next_uuid, exchange, reply, webhook_secret>>

InitOrders ==
  /\ today = 0
  /\ limits = TradeLimit(MaxTradeUsd, MaxDailyUsd, None)
  /\ today_stats = None
  /\ ledger = EmptyBag
  /\ mongo_db \in BOOLEAN
  /\ last = NoCall
  /\ OrdersInit
  /\ webhook_secret \in BOOLEAN
  /\ FlowsInit
  /\ AlertsInit
  /\ RunsInit

NextOrders ==
  \/ /\ \E a \in OrderAmounts, p \in LimitPrices, ot \in LimitTypes,
           raw \in ClobOutcomes, sr \in BOOLEAN : PostOrder(a, p, ot, raw, sr)
     /\ UNCHANGED <<limitVars, flowVars, alertVars, runVars>>
  \/ /\ \E w \in WebhookIds, a \in OrderAmounts, p \in LimitPrices, ot \in LimitTypes,
           sig \in {"none", "good", "bad"}, raw \in ClobOutcomes :
          ClawWebhook(w, a, p, ot, sig, raw, FALSE)
     /\ UNCHANGED <<limitVars, flowVars, alertVars, runVars>>
  \/ /\ \E i \in OrderIds, ok \in BOOLEAN, sr \in {"no", "get", "update"} :
          cancel_order(i, ok, sr)
     /\ UNCHANGED <<limitVars, flowVars, alertVars, runVars>>
  \/ /\ \E i \in OrderIds, st \in ExchangeStatuses : get_order_status(i, st)
     /\ UNCHANGED <<limitVars, flowVars, alertVars, runVars>>
  \/ /\ \E a \in OrderAmounts \ {0} : CheckTradeAllowed(a, FALSE)
     /\ UNCHANGED <<flowVars, alertVars, runVars>>

SpecOrders == InitOrders /\ [][NextOrders]_vars

\* ------------------------------------------------- the order service alone
\* OrderService behind POST /orders, DELETE /orders/{id} and the status
\* lookup, without the webhook and the limits routes
InitCancel ==
  /\ today = 0
  /\ limits = TradeLimit(MaxTradeUsd, MaxDailyUsd, None)
  /\ today_stats = None
  /\ ledger = EmptyBag
  /\ mongo_db \in BOOLEAN
  /\ last = NoCall
  /\ OrdersInit
  /\ webhook_secret = FALSE
  /\ FlowsInit
  /\ AlertsInit
  /\ RunsInit

NextCancel ==
  \/ /\ \E a \in OrderAmounts, p \in LimitPrices, ot \in LimitTypes,
           raw \in ClobOutcomes, sr \in BOOLEAN : PostOrder(a, p, ot, raw, sr)
     /\ UNCHANGED <<limitVars, flowVars, alertVars, runVars>>
  \/ /\ \E i \in OrderIds, ok \in BOOLEAN, sr \in {"no", "get", "update"} :
          cancel_order(i, ok, sr)
     /\ UNCHANGED <<limitVars, flowVars, alertVars, runVars>>
  \/ /\ \E i \in OrderIds, st \in ExchangeStatuses : get_order_status(i, st)
     /\ UNCHANGED <<limitVars, flowVars, alertVars, runVars>>
  \/ /\ \E i \in OrderIds, sr \in BOOLEAN : GetOrder(i, sr)
     /\ UNCHANGED <<limitVars, flowVars, alertVars, runVars>>
  \/ /\ \E ok \in BOOLEAN : cancel_all_orders(ok)
     /\ UNCHANGED <<limitVars, flowVars, alertVars, runVars>>

SpecCancel == InitCancel /\ [][NextCancel]_vars

\* ------------------------------------------------------- request intake
\* The two routes that take order requests, with every price and order type;
\* the store answers, the CLOB call raises or returns an order id.
IntakeOutcomes ==
  { raw \in ClobOutcomes : raw.kind = "raise" \/ (raw.kind = "dict" /\ raw.id /\ raw.hash) }

NextIntake ==
  \/ /\ \E a \in OrderAmounts, p \in Prices, ot \in OrderTypes, raw \in IntakeOutcomes :
          PostOrder(a, p, ot, raw, FALSE)
     /\ UNCHANGED <<limitVars, flowVars, alertVars, runVars>>
  \/ /\ \E w \in WebhookIds, a \in OrderAmounts, p \in Prices, ot \in OrderTypes,
           raw \in IntakeOutcomes : ClawWebhook(w, a, p, ot, "none", raw, FALSE)
     /\ UNCHANGED <<limitVars, flowVars, alertVars, runVars>>

SpecIntake == InitCancel /\ [][NextIntake]_vars

\* ----------------------------------------------------------- alert actions
\* PriceAlertService.create_alert; alert_id is None when the caller gives no
\* id (POST /alerts never gives one) and the id comes from the clock
create_alert(token_id, condition, threshold, webhook_url, alert_id) ==
  LET id    == IF alert_id # None THEN alert_id[1] ELSE now
      alert == Alert(id, token_id, condition, threshold, webhook_url)
  IN  /\ active_alerts' =
            IF BucketIndex(active_alerts, token_id, 1) = 0
            THEN Append(active_alerts, [token_id |-> token_id, alerts |-> <<alert>>])
            ELSE WithBucket(active_alerts, token_id,
                            Append(Bucket(active_alerts, token_id), alert))
      /\ alert_reply' = [NoAlertReply EXCEPT !.op = "create_alert",
                            !.token_id = token_id, !.alert_id = id]
      /\ UNCHANGED <<now, checks, fired>>

\* the position of the first alert of the list with the id, 0 when none
RECURSIVE AlertIndex(_, _, _)
AlertIndex(alerts, alert_id, i) ==
  IF i > Len(alerts) THEN 0
  ELSE IF alerts[i].alert_id = alert_id THEN i
  ELSE AlertIndex(alerts, alert_id, i + 1)

\* alerts.pop(i)
Pop(alerts, i) == SubSeq(alerts, 1, i - 1) \o SubSeq(alerts, i + 1, Len(alerts))

\* the scan of delete_alert from bucket b on: the first alert with the id is
\* popped and the scan ends
RECURSIVE DeleteFirst(_, _, _)
DeleteFirst(table, alert_id, b) ==
  IF b > Len(table) THEN [found |-> FALSE, table |-> table]
  ELSE LET i == AlertIndex(table[b].alerts, alert_id, 1)
       IN  IF i # 0
           THEN [found |-> TRUE,
                 table |-> [table EXCEPT ![b].alerts = Pop(table[b].alerts, i)]]
           ELSE DeleteFirst(table, alert_id, b + 1)

\* PriceAlertService.delete_alert(alert_id)
delete_alert(alert_id) ==
  LET r == DeleteFirst(active_alerts, alert_id, 1)
  IN  /\ active_alerts' = r.table
      /\ alert_reply' = [NoAlertReply EXCEPT !.op = "delete_alert",
                            !.alert_id = alert_id, !.found = r.found]
      /\ UNCHANGED <<now, checks, fired>>

\* the ids of the alerts of a list that are neither triggered nor inactive
\* and that current_price fires
DueIds(alerts, current_price) ==
  { alerts[k].alert_id : k \in { j \in 1..Len(alerts) :
                                   /\ ~(alerts[j].triggered \/ ~alerts[j].active)
                                   /\ ShouldTrigger(alerts[j], current_price) } }

\* a check_alerts call after one stretch r of its loop: it returns its list
\* at the end of the loop, and waits for the POST otherwise
Proceed(c, token_id, current_price, r, due) ==
  /\ active_alerts' = WithBucket(active_alerts, token_id, r.alerts)
  /\ IF r.pc = "done"
     THEN /\ checks' = [checks EXCEPT ![c] = IdleCheck]
          /\ alert_reply' = [NoAlertReply EXCEPT !.op = "check_alerts",
                                !.token_id = token_id, !.price = current_price,
                                !.result = r.out]
          /\ fired' = Count(fired, r.out, 1)
     ELSE /\ checks' = [checks EXCEPT ![c] =
                           [pc |-> "post", token_id |-> token_id,
                            price |-> current_price, idx |-> r.idx, out |-> r.out,
                            due |-> due]]
          /\ UNCHANGED <<alert_reply, fired>>
  /\ UNCHANGED now

\* PriceAlertService.check_alerts(current_price, token_id) from its start to
\* its first webhook POST, or to its end
CheckStart(c, current_price, token_id) ==
  /\ checks[c].pc = "idle"
  /\ Proceed(c, token_id, current_price,
             Evaluate(Bucket(active_alerts, token_id), current_price, 1, <<>>),
             DueIds(Bucket(active_alerts, token_id), current_price))

\* the POST is over (done or failed and logged): the loop goes on with the
\* next position of the list as it is by now
CheckResume(c) ==
  /\ checks[c].pc = "post"
  /\ Proceed(c, checks[c].token_id, checks[c].price,
             Evaluate(Bucket(active_alerts, checks[c].token_id), checks[c].price,
                      checks[c].idx, checks[c].out),
             checks[c].due)

\* check_alerts(current_price, token_id) from its start to its end, nothing
\* else running at its POSTs if it makes any
check_alerts(current_price, token_id) ==
  LET r == Run(Bucket(active_alerts, token_id), current_price, 1, <<>>)
  IN  /\ active_alerts' = WithBucket(active_alerts, token_id, r.alerts)
      /\ alert_reply' = [NoAlertReply EXCEPT !.op = "check_alerts",
                            !.token_id = token_id, !.price = current_price,
                            !.result = r.out]
      /\ fired' = Count(fired, r.out, 1)
      /\ UNCHANGED <<now, checks>>

\* a second passes
Tick ==
  /\ now < MaxClock
  /\ now' = now + 1
  /\ UNCHANGED <<active_alerts, checks, alert_reply, fired>>

\* the limits engine and the order service at rest
InitAlerts ==
  /\ today = 0
  /\ limits = TradeLimit(MaxTradeUsd, MaxDailyUsd, None)
  /\ today_stats = None
  /\ ledger = EmptyBag
  /\ mongo_db = TRUE
  /\ last = NoCall
  /\ OrdersInit
  /\ webhook_secret = FALSE
  /\ FlowsInit
  /\ AlertsInit
  /\ RunsInit

\* the alert operations on one token with "above" alerts that have a
\* webhook_url, check_alerts calls interleaving at their POSTs
NextAlerts ==
  \/ /\ TotalAlerts(active_alerts, 1) < MaxAlerts
     /\ \E th \in Thresholds : create_alert("t1", "above", th, TRUE, None)
     /\ UNCHANGED <<limitVars, orderVars, flowVars, runVars>>
  \/ /\ \E id \in AlertIds : delete_alert(id)
     /\ UNCHANGED <<limitVars, orderVars, flowVars, runVars>>
  \/ /\ \E c \in CheckIds, p \in {65, 80} : CheckStart(c, p, "t1")
     /\ UNCHANGED <<limitVars, orderVars, flowVars, runVars>>
  \/ /\ \E c \in CheckIds : CheckResume(c)
     /\ UNCHANGED <<limitVars, orderVars, flowVars, runVars>>
  \/ Tick /\ UNCHANGED <<limitVars, orderVars, flowVars, runVars>>

SpecAlerts == InitAlerts /\ [][NextAlerts]_vars

\* the alert operations within one second on alerts without webhook_url:
\* check_alerts then has no await and runs from start to end in one piece
NextAlertsSerial ==
  \/ /\ TotalAlerts(active_alerts, 1) < MaxAlerts
     /\ \E t \in Tokens, cond \in Conditions, th \in Thresholds :
          create_alert(t, cond, th, FALSE, None)
     /\ UNCHANGED <<limitVars, orderVars, flowVars, runVars>>
  \/ /\ \E id \in AlertIds : delete_alert(id)
     /\ UNCHANGED <<limitVars, orderVars, flowVars, runVars>>
  \/ /\ \E p \in AlertPrices, t \in Tokens : check_alerts(p, t)
     /\ UNCHANGED <<limitVars, orderVars, flowVars, runVars>>

SpecAlertsSerial == InitAlerts /\ [][NextAlertsSerial]_vars

\* --------------------------------------------------------- admission flows
\* A caller of the limits engine that does what the specification asks of
\* it: can_trade(amount), and when that is allowed, record_trade of the
\* amount dated today.  Up to NumFlows such flows interleave at the two
\* calls; the ledger is available and nothing else writes to it.
FlowCheck(amount_usd) ==
  /\ BagCardinality(in_flight) < NumFlows
  /\ CanTrade(amount_usd, FALSE)
  /\ in_flight' = IF last'.allowed THEN in_flight (+) SetToBag({amount_usd})
                   ELSE in_flight

FlowRecord(amount_usd) ==
  /\ BagIn(amount_usd, in_flight)
  /\ RecordTrade([day |-> today, amount |-> amount_usd], FALSE)
  /\ in_flight' = in_flight (-) SetToBag({amount_usd})

\* the ledger before the flows start: empty, or one trade of today
InitFlows ==
  /\ today = 0
  /\ limits = TradeLimit(MaxTradeUsd, MaxDailyUsd, None)
  /\ today_stats = None
  /\ ledger \in {EmptyBag} \cup { SetToBag({[day |-> 0, amount |-> a]}) : a \in TradeAmounts }
  /\ mongo_db = TRUE
  /\ last = NoCall
  /\ OrdersInit
  /\ webhook_secret = FALSE
  /\ FlowsInit
  /\ AlertsInit
  /\ RunsInit

NextFlows ==
  \/ /\ \E a \in FlowAmounts : FlowCheck(a)
     /\ UNCHANGED <<orderVars, alertVars, runVars>>
  \/ /\ \E a \in FlowAmounts : FlowRecord(a)
     /\ UNCHANGED <<orderVars, alertVars, runVars>>
  \/ Midnight /\ UNCHANGED <<orderVars, flowVars, alertVars, runVars>>

SpecFlows == InitFlows /\ [][NextFlows]_vars

\* ========================================================= order lifecycle
\* C1: no order is submitted to the trading client by create_order unless
\* can_trade was consulted for its amount beforehand and answered
\* allowed=True.
C1_SubmittedOnlyIfAdmitted == \A s \in exchange : s.amount \in admitted

\* C2: every create_order call, whatever the submission came back with and
\* whether or not the store is connected, leaves exactly one stored record
\* for the order_id it allocated, and get_order finds it right after.
C2_EveryCallLeavesOneRecord ==
  reply.op = "create_order" =>
    /\ Cardinality({ o \in orders : o.order_id = reply.order_id }) = 1
    /\ get_order(orders, reply.order_id, mongo_db) # {}

\* C3: once the stored status of an order is FILLED, CANCELLED, EXPIRED or
\* FAILED, no later step changes it.
C3_TerminalStatusIsFinal ==
  [][\A o \in orders :
       o.status \in Terminal
         => \E n \in orders' : n.order_id = o.order_id /\ n.status = o.status]_vars

\* the submissions that came from deliveries of one webhook payload
SubmissionsOf(w, a) ==
  { s \in exchange : s.webhook_id = Some(w) /\ s.amount = a }

\* C5: a trade signal delivered more than once to /webhook/claw (same
\* payload, same webhook_id) leads to at most one submission to the
\* exchange and at most one stored order record.
C5_WebhookDeliveredOnce ==
  \A w \in WebhookIds, a \in OrderAmounts :
    /\ Cardinality(SubmissionsOf(w, a)) <= 1
    /\ Cardinality({ o \in orders :
                       \E s \in SubmissionsOf(w, a) : s.order_id = o.order_id }) <= 1

\* ======================================================== the limits engine
\* a read by get_daily_stats(reload=False) that follows a record_trade of a
\* trade dated on the day of the read
ReadAfterRecord ==
  /\ last.op = "get_daily_stats" /\ ~last.reload
  /\ last.after # None /\ last.after[1].day = last.at

ReadIncludesTrade ==
  /\ today_stats[1].total_trades = last.after[1].trades + 1
  /\ today_stats[1].total_volume_usd = last.after[1].volume + last.after[1].amount

RolloverRead ==
  /\ last.op = "get_daily_stats" /\ ~last.reload
  /\ last.cached # None /\ last.at = last.cached[1] + 1

\* C7: a snapshot cached for day D is not returned by a read on day D+1: the
\* ledger is queried again, the snapshot returned is dated D+1, and its
\* counters are zero when the ledger holds no trade dated D+1.
C7_DayRollover ==
  RolloverRead =>
    /\ last.queried
    /\ today_stats[1].date = last.at
    /\ ({ t \in BagToSet(ledger) : t.day = last.at } = {}
          => /\ today_stats[1].total_trades = 0
             /\ today_stats[1].total_volume_usd = 0)

\* the ledger holds trades of day D only, and the read on D+1 returned zeros
C7_Witness ==
  /\ RolloverRead /\ last.ok
  /\ ledger # EmptyBag
  /\ { t \in BagToSet(ledger) : t.day = last.at } = {}
  /\ today_stats[1] = DailyStats(last.at, 0, 0)

\* the checks of can_trade, as the specification words them, on the
\* snapshot the latest can_trade call used
OverTrade == last.amount > limits.max_trade_usd
OverDaily == today_stats[1].total_volume_usd + last.amount > limits.max_daily_usd
OverCount ==
  /\ limits.max_daily_trades # None
  /\ today_stats[1].total_trades >= limits.max_daily_trades[1]

\* C8: can_trade answers with the first failing check in the order per-trade
\* ceiling, daily volume, daily trade count, and allows a request that fails
\* none of them.
C8_FirstFailingCheckWins ==
  last.op = "can_trade" =>
    /\ OverTrade => (~last.allowed /\ last.reason.kind = "exceeds_trade_limit")
    /\ (~OverTrade /\ OverDaily)
          => (~last.allowed /\ last.reason.kind = "daily_limit_exceeded")
    /\ last.reason.kind = "daily_trade_limit_reached"
          => (~last.allowed /\ ~OverTrade /\ ~OverDaily /\ OverCount)
    /\ (~OverTrade /\ ~OverDaily /\ ~OverCount)
          => (last.allowed /\ last.reason.kind = "Trade allowed")

\* a request over the per-trade ceiling and over the daily volume, rejected
\* for the per-trade ceiling
C8_Witness ==
  /\ last.op = "can_trade" /\ OverTrade /\ OverDaily
  /\ today_stats[1].total_volume_usd > 0
  /\ last.reason.kind = "exceeds_trade_limit"

\* C9: for every configured max_daily_trades, 0 included, a request that
\* passes the per-trade and daily-volume checks is rejected with the
\* daily-trade-limit reason when total_trades >= max_daily_trades.
C9_CountLimitEnforced ==
  (last.op = "can_trade" /\ ~OverTrade /\ ~OverDaily /\ OverCount)
    => (~last.allowed /\ last.reason.kind = "daily_trade_limit_reached")

RejectedBySize(res) ==
  ~res.allowed /\ res.reason.kind \in {"exceeds_trade_limit", "daily_limit_exceeded"}

\* C10: for the snapshot in use and the configured limits, an amount that
\* can_trade rejects for the per-trade ceiling or the daily volume is
\* rejected at every larger amount too.
C10_AdmissionMonotonic ==
  today_stats # None =>
    \A a \in Amounts, b \in Amounts :
      (a < b /\ RejectedBySize(can_trade(a, today_stats[1], limits)))
        => ~can_trade(b, today_stats[1], limits).allowed

\* a request rejected for the daily volume with a larger amount to compare
C10_Witness ==
  /\ last.op = "can_trade" /\ ~last.allowed
  /\ last.reason.kind = "daily_limit_exceeded"
  /\ \E b \in Amounts :
        last.amount < b /\ ~can_trade(b, today_stats[1], limits).allowed

\* today's recorded volume
VolumeToday == LedgerStats(ledger, today).total_volume_usd

\* C4 as stated: under any interleaving of any number of concurrent
\* admission flows, today's recorded volume never exceeds max_daily_usd by
\* more than one trade's worth (max_trade_usd).
C4_ExcessAtMostOneTrade ==
  VolumeToday <= limits.max_daily_usd + limits.max_trade_usd

\* C4 amended: with N concurrent admission flows and an available ledger,
\* today's recorded volume never exceeds max_daily_usd by more than N - 1
\* trades' worth.
C4_ExcessBoundedByFlows ==
  VolumeToday <= limits.max_daily_usd + (NumFlows - 1) * limits.max_trade_usd

\* every flow was admitted on the same usage and each has recorded: the
\* volume is over the limit by exactly N - 1 trades' worth
C4_Witness ==
  /\ VolumeToday = limits.max_daily_usd + (NumFlows - 1) * limits.max_trade_usd
  /\ in_flight = EmptyBag
  /\ last.op = "record_trade"

\* the records of the ledger dated on day d, counted and summed one by one
TradesOfDay(l, d) == CountOver({ t \in BagToSet(l) : t.day = d }, l)
VolumeOfDay(l, d) == VolumeOver({ t \in BagToSet(l) : t.day = d }, l)

\* C11: the snapshot get_daily_stats returns for today counts no ledger
\* record dated before the start of the current UTC day: its total_trades
\* and total_volume_usd are at most those of the records dated today.
C11_OldRecordsNeverCount ==
  last.op = "get_daily_stats" =>
    /\ today_stats[1].total_trades <= TradesOfDay(ledger, last.at)
    /\ today_stats[1].total_volume_usd <= VolumeOfDay(ledger, last.at)

\* the ledger holds a trade of the day before and a trade of today, and the
\* read returned the totals of today's trade alone
C11_Witness ==
  /\ last.op = "get_daily_stats" /\ last.ok /\ last.queried
  /\ \E t \in BagToSet(ledger) : t.day < last.at
  /\ today_stats[1].total_trades = TradesOfDay(ledger, last.at)
  /\ today_stats[1].total_volume_usd = VolumeOfDay(ledger, last.at)
  /\ today_stats[1].total_trades > 0

\* a get_daily_stats or can_trade call whose ledger query failed
FailedQuery ==
  /\ last.op \in {"get_daily_stats", "can_trade"}
  /\ last.queried /\ ~last.ok

\* C12: when the ledger query fails (store not connected, or the aggregate
\* call raising), get_daily_stats returns a snapshot dated today with zero
\* counters, and can_trade on it allows every amount that is at most
\* max_trade_usd and at most max_daily_usd.
C12_FailOpen ==
  FailedQuery =>
    /\ today_stats = Some(DailyStats(last.at, 0, 0))
    /\ \A a \in Amounts :
         (a <= limits.max_trade_usd /\ a <= limits.max_daily_usd)
           => can_trade(a, today_stats[1], limits).allowed
    /\ (last.op = "can_trade" /\ last.amount <= limits.max_trade_usd
          /\ last.amount <= limits.max_daily_usd) => last.allowed

\* the ledger holds today's trades up to the daily ceiling, the query of
\* can_trade failed, and the request was allowed
C12_Witness ==
  /\ FailedQuery /\ last.op = "can_trade" /\ last.allowed
  /\ VolumeOfDay(ledger, last.at) + last.amount > limits.max_daily_usd

\* the latest call was a create_order whose CLOB call raised
ClobRaised == reply.op = "create_order" /\ reply.clob = "raise"

\* the stored document holds the message: under a key "error", or as its
\* "response"
CarriesMessage(o, msg) ==
  \/ "error" \in DOMAIN o /\ o.error = msg
  \/ o.response = Some(msg)

\* C13: when the trading client's call raises during create_order, the
\* returned result has success=False and the error message, and a record
\* with status FAILED that carries the message is stored and found by
\* get_order under the order_id of the call.
C13_FailureRecordCarriesError ==
  ClobRaised =>
    /\ ~reply.success
    /\ ClobMessage \in {reply.error, reply.result_error}
    /\ \E o \in get_order(orders, reply.order_id, mongo_db) :
          o.status = "FAILED" /\ CarriesMessage(o, ClobMessage)

\* C14: cancel_order on an order whose stored status is terminal reports
\* success and leaves the stored record as it is, whatever the external
\* cancel call answers; so repeated cancellations keep succeeding and keep
\* the stored state.
C14_CancelOfTerminalIsNoOp ==
  [][\A i \in OrderIds, ok \in BOOLEAN :
       ( /\ cancel_order(i, ok, "no")
         /\ \E o \in get_order(orders, i, mongo_db) : o.status \in Terminal )
       => (reply'.success /\ orders' = orders)]_vars

\* the latest call was a cancel_order whose lookup found no record
CancelFoundNothing ==
  /\ reply.op = "cancel_order"
  /\ get_order(orders, reply.order_id, mongo_db) = {}
  /\ reply.error # "exception"

\* C15: cancel_order for an order_id with no stored record returns the
\* failure "Order not found", has not called the external cancel and has
\* not written to the order store.
C15_CancelOfUnknownOrder ==
  [][( /\ reply'.op = "cancel_order"
       /\ get_order(orders, reply'.order_id, mongo_db) = {}
       /\ reply'.error # "exception" )
     => ( /\ reply'.error = "Order not found"
          /\ ~reply'.success /\ ~reply'.external
          /\ orders' = orders )]_vars

\* another order is stored, and the cancel of an id without a record
\* answered not found
C15_Witness ==
  /\ CancelFoundNothing /\ mongo_db
  /\ reply.error = "Order not found"
  /\ orders # {}

\* the mapping of an external status onto the local set that the
\* specification gives for reconcile_status
MappedStatus(external_status) ==
  IF external_status \in {"FILLED", "PARTIALLY_FILLED", "CANCELLED", "EXPIRED", "OPEN"}
  THEN external_status
  ELSE "PENDING"

\* C16: get_order_status(order_id) on an order whose stored status is not
\* terminal leaves the stored status equal to the mapped status that the
\* trading client reported (unrecognized statuses map to PENDING).
C16_ReconcileWritesMappedStatus ==
  [][\A i \in OrderIds, st \in ExchangeStatuses \ {""} :
       ( /\ get_order_status(i, st)
         /\ \E o \in get_order(orders, i, mongo_db) : o.status \notin Terminal )
       => \E n \in get_order(orders', i, mongo_db) : n.status = MappedStatus(st)]_vars

\* a request the specification rejects: amount <= 0, a price outside the
\* open interval (0, 1), or an order type that needs a price without one
RequestInvalid(amount, price, order_type) ==
  \/ amount <= 0
  \/ price # None /\ ~(price[1] > 0 /\ price[1] < 100)
  \/ order_type = "GTC" /\ price = None

\* C17: an order request with amount <= 0, with a price outside (0, 1), 0
\* and 1 included, or with a price-requiring order type and no price, is
\* rejected before any external call: it never reaches
\* polymarket_client.place_order, on POST /orders and on /webhook/claw.
C17_InvalidRequestNeverSubmitted ==
  [][\A a \in OrderAmounts, p \in Prices, ot \in OrderTypes, raw \in IntakeOutcomes :
       RequestInvalid(a, p, ot)
         => /\ PostOrder(a, p, ot, raw, FALSE) => exchange' = exchange
            /\ \A w \in WebhookIds :
                 ClawWebhook(w, a, p, ot, "none", raw, FALSE) => exchange' = exchange]_vars

\* C18: no public operation of the order service lets an exception escape
\* when the order store or the trading client fails: create_order,
\* get_order, cancel_order, cancel_all_orders and get_order_status each
\* return a result value.
C18_NoExceptionEscapes ==
  reply.op \in {"create_order", "get_order", "cancel_order", "cancel_all_orders",
                "get_order_status"}
    => ~reply.raised

\* ================================================================ alerts
\* C19: across create_alert, delete_alert and check_alerts calls, the
\* check_alerts calls interleaving at their webhook POSTs, no alert_id is
\* returned as triggered more than once.
C19_AlertReturnedOnce == \A id \in AlertIds : fired[id] <= 1

\* an alert that current_price fires, as the specification words it
Armed(alert) == alert.active /\ ~alert.triggered
Fires(alert, current_price) ==
  /\ Armed(alert)
  /\ \/ alert.condition = "above" /\ current_price >= alert.threshold
     \/ alert.condition = "below" /\ current_price <= alert.threshold
Marked(alert, current_price) ==
  [alert EXCEPT !.triggered = TRUE, !.trigger_price = Some(current_price)]

\* the alerts of a list that current_price fires, marked, in list order
FiredOf(alerts, current_price) ==
  LET Test(a) == Fires(a, current_price)
      sel == SelectSeq(alerts, Test)
  IN  [k \in 1..Len(sel) |-> Marked(sel[k], current_price)]

HasId(table, alert_id) ==
  \E b \in 1..Len(table) : \E k \in 1..Len(table[b].alerts) :
    table[b].alerts[k].alert_id = alert_id

\* the alerts of a list that carry another id, in list order
OthersOf(alerts, alert_id) ==
  LET Test(a) == a.alert_id # alert_id
  IN  SelectSeq(alerts, Test)

\* C21: delete_alert(alert_id) returns true exactly when an alert with that
\* id was stored; after it returns true no alert with that id remains in any
\* token bucket, and every alert with a different id is left in place.
C21_DeleteRemovesTheId ==
  [][alert_reply'.op = "delete_alert" =>
         LET id == alert_reply'.alert_id
         IN  /\ alert_reply'.found <=> HasId(active_alerts, id)
             /\ alert_reply'.found => ~HasId(active_alerts', id)
             /\ Len(active_alerts') = Len(active_alerts)
             /\ \A b \in 1..Len(active_alerts) :
                  /\ active_alerts'[b].token_id = active_alerts[b].token_id
                  /\ OthersOf(active_alerts'[b].alerts, id)
                       = OthersOf(active_alerts[b].alerts, id)]_vars

\* max(0, x)
ClampedAtZero(x) == IF x < 0 THEN 0 ELSE x

\* C22: whenever can_trade rejects for the daily volume limit, the remaining
\* headroom stated in the reason equals max(0, max_daily_usd -
\* total_volume_usd): it is never negative, also when today's recorded
\* volume already exceeds max_daily_usd.
C22_RemainingNeverNegative ==
  (last.op = "can_trade" /\ last.reason.kind = "daily_limit_exceeded")
    => /\ last.reason.value
            = ClampedAtZero(limits.max_daily_usd - today_stats[1].total_volume_usd)
       /\ last.reason.value >= 0

\* ------------------------------------------------------- the trade monitor
\* TradeMonitor.check_trades finding one trade it does not know yet:
\* database.save_trade inserts it into the trades collection with the
\* timestamp utcnow(); an insert that raises is logged by check_trades.  The
\* limits engine is not told.
CheckTrades(amount, raises) ==
  LET inserted == mongo_db /\ ~raises
  IN  /\ ledger' = IF inserted
                    THEN ledger (+) SetToBag({[day |-> today, amount |-> amount]})
                    ELSE ledger
      /\ last' = [NoCall EXCEPT !.op = "check_trades", !.amount = amount,
                    !.day = today, !.at = today, !.ok = inserted,
                    !.cached = CachedDate(today_stats)]
      /\ UNCHANGED <<today, limits, today_stats, mongo_db>>

\* the limits engine next to the trade monitor, both on the trades collection
NextMonitor ==
  \/ /\ \E reload \in BOOLEAN, raises \in BOOLEAN : GetDailyStats(reload, raises)
     /\ UNCHANGED <<orderVars, flowVars, alertVars, runVars>>
  \/ /\ \E a \in Amounts, raises \in BOOLEAN : CanTrade(a, raises)
     /\ UNCHANGED <<orderVars, flowVars, alertVars, runVars>>
  \/ /\ BagCardinality(ledger) < MaxLedger
     /\ \E d \in 0..today, a \in TradeAmounts, raises \in BOOLEAN :
          RecordTrade([day |-> d, amount |-> a], raises)
     /\ UNCHANGED <<orderVars, flowVars, alertVars, runVars>>
  \/ /\ BagCardinality(ledger) < MaxLedger
     /\ \E a \in TradeAmounts, raises \in BOOLEAN : CheckTrades(a, raises)
     /\ UNCHANGED <<orderVars, flowVars, alertVars, runVars>>
  \/ Midnight /\ UNCHANGED <<orderVars, flowVars, alertVars, runVars>>

SpecMonitor == InitLimits /\ [][NextMonitor]_vars

\* C23: whenever a trade is added to the ledger, by record_trade or by the
\* trade monitor, the cached daily snapshot is discarded; hence in every
\* reachable state a cached snapshot dated today has total_trades and
\* total_volume_usd equal to the ledger's aggregate for today.
C23_CacheAgreesWithLedger ==
  /\ [][ledger' # ledger => today_stats' = None]_vars
  /\ [](( today_stats # None /\ today_stats[1].date = today )
          => /\ today_stats[1].total_trades = TradesOfDay(ledger, today)
             /\ today_stats[1].total_volume_usd = VolumeOfDay(ledger, today))

\* the latest call was a get_daily_stats whose ledger query failed
OutageRead == last.op = "get_daily_stats" /\ last.queried /\ ~last.ok

\* C24: when a get_daily_stats call failed against the ledger and the ledger
\* is reachable at a later can_trade call on the same UTC day, that can_trade
\* judges the request on the ledger's actual totals, not on the zero
\* snapshot of the outage: it answers as can_trade on the ledger's aggregate
\* for today does.  Checked on the can_trade call that comes right after the
\* failed read.
C24_BreachEnforcedAfterOutage ==
  [][( /\ OutageRead /\ last.at = today
       /\ mongo_db
       /\ last'.op = "can_trade" )
     => LET res == can_trade(last'.amount, LedgerStats(ledger, today), limits)
        IN  /\ last'.allowed = res.allowed
            /\ last'.reason = res.reason]_vars

\* the result of place_order carries an external reference: its "order_id",
\* or a "hash" in its "response"
ResultHasReference(result) ==
  result.success \/ (result.has_response /\ result.response.hash)

\* the record stored for a result holds an external reference: its
\* transaction_hash, or the exchange's order id inside its stored response
RecordHasReference(o, result) ==
  o.transaction_hash \/ (o.response # None /\ result.response.id)

\* C25: create_order stores status OPEN exactly when the result of the
\* trading client carries an external reference (exchange order id or
\* transaction hash) and no explicit error, and stores FAILED otherwise;
\* so the record it stores with status OPEN has a non-null external
\* reference.  Checked with the order store connected and answering.
C25_OpenIffExternalReference ==
  [][\A a \in OrderAmounts \ {0}, p \in LimitPrices, ot \in LimitTypes,
        raw \in ClobOutcomes :
       (mongo_db /\ PostOrder(a, p, ot, raw, FALSE))
         => LET result == place_order(raw)
                status == IF ResultHasReference(result) /\ result.error = "none"
                          THEN "OPEN" ELSE "FAILED"
            IN  \E o \in get_order(orders', next_uuid', mongo_db) :
                  /\ o.status = status
                  /\ o.status = "OPEN" => RecordHasReference(o, result)]_vars

\* the ids of the alerts in a list
IdsIn(alerts) == { alerts[k].alert_id : k \in 1..Len(alerts) }

\* C26: every alert that is active and not triggered on token_id when
\* check_alerts(current_price, token_id) is called, and whose condition
\* current_price satisfies, is fired by that call, also when create_alert or
\* delete_alert for another alert of the token runs while the call waits on
\* a webhook POST: when the call returns, each such alert is in its result
\* unless it was deleted meanwhile.
C26_NoArmedAlertSkipped ==
  [][\A c \in CheckIds :
       (checks[c].pc = "post" /\ checks'[c].pc = "idle")
         => \A id \in checks[c].due :
              \/ id \in IdsIn(alert_reply'.result)
              \/ id \notin IdsIn(Bucket(active_alerts', checks[c].token_id))]_vars

\* -------------------------------------------------------- _run_sync steps
\* _run_sync up to run_in_executor: a new event loop that is never run, and
\* func handed to the loop's executor, where a thread starts it.  The
\* callers are async methods that call _run_sync without awaiting, so one
\* call ends before the next begins.
RunSyncSubmit(i) ==
  /\ runs[i].pc = "idle"
  /\ \A j \in RunIds : j < i => runs[j].pc = "ended"
  /\ runs' = [runs EXCEPT ![i].pc = "submitted", ![i].func = "running"]

\* func ends in its thread with raw.  The executor hands the result over
\* with loop.call_soon_threadsafe: a loop that is open queues the callback
\* and, as nothing runs that loop, never calls it; a closed loop refuses it.
\* The asyncio future stays as it is in both cases.
FuncEnds(i, raw) ==
  /\ runs[i].func = "running"
  /\ runs' = [runs EXCEPT
                ![i].func = IF raw.kind = "raise" THEN "raised" ELSE "returned",
                ![i].raw = Some(raw),
                ![i].callback = IF runs[i].pc = "ended" THEN "refused"
                                ELSE "scheduled"]

\* Future.result(): the result or the exception of a finished future,
\* InvalidStateError for one that is not finished
FutureResult(run) ==
  IF run.future = "FINISHED"
  THEN IF run.func = "raised" THEN "func_exception" ELSE "value"
  ELSE "InvalidStateError"

\* _run_sync from .result() to its end: loop.close() in the finally clause
\* shuts the executor down without waiting for func
RunSyncResult(i) ==
  /\ runs[i].pc = "submitted"
  /\ runs' = [runs EXCEPT ![i].pc = "ended", ![i].ended = FutureResult(runs[i])]

InitRunSync == InitAlerts

NextRunSync ==
  \/ /\ \E i \in RunIds : RunSyncSubmit(i)
     /\ UNCHANGED <<limitVars, orderVars, flowVars, alertVars>>
  \/ /\ \E i \in RunIds, raw \in ClobOutcomes : FuncEnds(i, raw)
     /\ UNCHANGED <<limitVars, orderVars, flowVars, alertVars>>
  \/ /\ \E i \in RunIds : RunSyncResult(i)
     /\ UNCHANGED <<limitVars, orderVars, flowVars, alertVars>>

SpecRunSync == InitRunSync /\ [][NextRunSync]_vars

\* C27: _run_sync(func, *args) returns the value func returns: when
\* _run_sync returns or raises, func has completed in the executor, and an
\* exception _run_sync raises is one raised by func, so that an error
\* reported through _run_sync means the CLOB call did not succeed.
C27_RunSyncReturnsFuncResult ==
  \A i \in RunIds :
    runs[i].pc = "ended" =>
      /\ runs[i].func \in {"returned", "raised"}
      /\ runs[i].func = "returned" => runs[i].ended = "value"
      /\ runs[i].ended # "value"
           => (runs[i].ended = "func_exception" /\ runs[i].func = "raised")

\* the identifier the exchange assigns to the order that create_order got
\* the local id order_id for ("orderID" or "id" of the response): exchange
\* identifiers are no local ids
ExchangeOrderId(order_id) == MaxOrders + order_id

\* the identifier OrderService.cancel_order hands to
\* polymarket_client.cancel_order, which passes it on to the CLOB's cancel:
\* the order_id it was called with
CancelArgument(order_id) == order_id

\* C28: when cancel_order(order_id) reports success for an order that
\* create_order placed successfully, the identifier handed to the external
\* cancel operation is the exchange-assigned identifier of that order, so
\* that the exchange order is no longer open and the stored status
\* CANCELLED agrees with the exchange.
C28_CancelNamesExchangeOrder ==
  [][( /\ reply'.op = "cancel_order" /\ reply'.success
       /\ \E o \in get_order(orders, reply'.order_id, mongo_db) : o.status = "OPEN" )
     => /\ reply'.external
        /\ CancelArgument(reply'.order_id) = ExchangeOrderId(reply'.order_id)]_vars

\* ------------------------------------------------ serialized admission flows
\* One admission flow at a time: can_trade(amount) and, when that is
\* allowed, record_trade of the amount dated today before anything else
\* happens: the next can_trade and midnight wait for it.  The ledger starts
\* empty, answers every call, and has no other writer.
SerialAmounts == {80, 100, 150}

SerialCheck(amount_usd) ==
  /\ in_flight = EmptyBag
  /\ CanTrade(amount_usd, FALSE)
  /\ in_flight' = IF last'.allowed THEN SetToBag({amount_usd}) ELSE in_flight

SerialRecord(amount_usd) ==
  /\ BagIn(amount_usd, in_flight)
  /\ RecordTrade([day |-> today, amount |-> amount_usd], FALSE)
  /\ in_flight' = EmptyBag

InitSerial ==
  /\ today = 0
  /\ limits \in LimitConfigs
  /\ today_stats = None
  /\ ledger = EmptyBag
  /\ mongo_db = TRUE
  /\ last = NoCall
  /\ OrdersInit
  /\ webhook_secret = FALSE
  /\ FlowsInit
  /\ AlertsInit
  /\ RunsInit

NextSerial ==
  \/ /\ \E a \in SerialAmounts : SerialCheck(a)
     /\ UNCHANGED <<orderVars, alertVars, runVars>>
  \/ /\ \E a \in SerialAmounts : SerialRecord(a)
     /\ UNCHANGED <<orderVars, alertVars, runVars>>
  \/ /\ in_flight = EmptyBag
     /\ Midnight
     /\ UNCHANGED <<orderVars, flowVars, alertVars, runVars>>

SpecSerial == InitSerial /\ [][NextSerial]_vars

\* C29: with serialized admission flows (each can_trade that allows is
\* followed at once by a successful record_trade of the amount dated today,
\* no other ledger writer, ledger available), today's total volume never
\* exceeds max_daily_usd and, when max_daily_trades is a positive number,
\* today's number of trades never exceeds max_daily_trades.
C29_SerialFlowsStayWithinLimits ==
  /\ VolumeOfDay(ledger, today) <= limits.max_daily_usd
  /\ (limits.max_daily_trades # None /\ limits.max_daily_trades[1] > 0)
       => TradesOfDay(ledger, today) <= limits.max_daily_trades[1]

\* the day is at its count limit with admitted trades, and the flow after
\* them was turned down for the count
C29_WitnessCount ==
  /\ limits.max_daily_trades # None /\ limits.max_daily_trades[1] > 0
  /\ TradesOfDay(ledger, today) = limits.max_daily_trades[1]
  /\ last.op = "can_trade" /\ ~last.allowed
  /\ last.reason.kind = "daily_trade_limit_reached"
  /\ in_flight = EmptyBag

\* the day's volume is at max_daily_usd, and the flow after was turned down
\* for the volume
C29_Witness ==
  /\ VolumeOfDay(ledger, today) = limits.max_daily_usd
  /\ last.op = "can_trade" /\ ~last.allowed
  /\ last.reason.kind = "daily_limit_exceeded"

\* C30: when a webhook secret is configured, /webhook/claw calls
\* create_order only for requests whose X-Webhook-Signature header equals
\* sha256=HMAC-SHA256(secret, body); a request with a missing or a wrong
\* signature never causes an order submission.
C30_UnsignedWebhookNeverSubmits ==
  [][\A w \in WebhookIds, a \in OrderAmounts, p \in LimitPrices, ot \in LimitTypes,
        sig \in {"none", "bad"}, raw \in ClobOutcomes :
       (webhook_secret /\ ClawWebhook(w, a, p, ot, sig, raw, FALSE))
         => exchange' = exchange]_vars

====
